---- MODULE Spec2Model ----
(***************************************************************************)
(* Model of QueryEngine/Utils/SegmentTree.h: SegmentTree<INPUT_TYPE,       *)
(* AGG_TYPE>, an array-backed N-ary aggregation tree built once over a     *)
(* column (reached through two index arrays) and queried by leaf ranges.   *)
(*                                                                         *)
(* INPUT_TYPE is modelled as an 8-bit and AGG_TYPE as a 16-bit signed      *)
(* integer; element values are small, so no accumulator overflows.         *)
(***************************************************************************)
EXTENDS Integers, Sequences, FiniteSets, TLC

(***************************************************************************)
(* Bounds of the model.                                                    *)
(***************************************************************************)
MaxElems == 2
MaxFanOut == 3
MaxVal == 1
MaxWideElems == 7
MaxWideFanOut == 4

(***************************************************************************)
(* Numeric limits of the two template parameter types and the sentinels.   *)
(***************************************************************************)
INPUT_MAX == 127
INPUT_MIN == -128
AGG_MAX == 32767
AGG_MIN == -32768
\* inline_null_value<T>() is declared outside this file; the two null
\* sentinels are values of their types distinct from every invalid sentinel
InlineNullValueInput == -127
InlineNullValueAgg == -32767

AggKinds == {"MIN", "MAX", "SUM", "COUNT", "AVG"}

VARIABLES
    input_col_buf_,                 \* raw column, physical offset -> value
    input_col_ti_,                  \* [is_decimal, scale] of the input column
    original_input_col_idx_buf_,    \* intermediate index -> physical offset
    ordered_input_col_idx_buf_,     \* sorted position -> intermediate index
    num_elems_,
    fan_out_,
    agg_type_,
    leaf_depth_,
    leaf_range_,                    \* [first, second]
    tree_size_,
    leaf_size_,
    invalid_val_,
    null_val_,
    input_type_null_val_,
    aggregated_values_,             \* node index -> AGG_TYPE (MIN/MAX/SUM/COUNT)
    derived_aggregated_,            \* node index -> [sum, count] (AVG)
    index_reads,                    \* sorted positions resolved while building
    last_op,                        \* which path the last operation took
    query_range,                    \* argument of the last query
    query_result,                   \* value the last query returned
    search_calls,                   \* (node, depth, start, end) of every search call
    node_reads                      \* buffer entries the last query read

treeVars == <<input_col_buf_, input_col_ti_, original_input_col_idx_buf_,
              ordered_input_col_idx_buf_, num_elems_, fan_out_, agg_type_,
              leaf_depth_, leaf_range_, tree_size_, leaf_size_, invalid_val_,
              null_val_, input_type_null_val_, aggregated_values_,
              derived_aggregated_, index_reads>>

queryVars == <<last_op, query_range, query_result, search_calls, node_reads>>

vars == <<treeVars, queryVars>>

(***************************************************************************)
(* Helpers.                                                                *)
(***************************************************************************)
RECURSIVE Pow(_, _)
Pow(b, e) == IF e = 0 THEN 1 ELSE b * Pow(b, e - 1)

Min2(a, b) == IF a < b THEN a ELSE b
Max2(a, b) == IF a > b THEN a ELSE b

IndexPair(a, b) == [first |-> a, second |-> b]

(***************************************************************************)
(* findMaxTreeHeight: the while(true) loop, one iteration per unfolding.   *)
(***************************************************************************)
RECURSIVE FindMaxTreeHeightLoop(_, _, _, _, _)
FindMaxTreeHeightLoop(num_elem, fan_out, cur_level_start_offset, depth, index_pair) ==
    IF num_elem < cur_level_start_offset
    THEN [first |-> depth, second |-> index_pair]
    ELSE LET maximum_node_at_next_level == Pow(fan_out, depth + 1)
             next_pair == IndexPair(cur_level_start_offset,
                                    cur_level_start_offset + maximum_node_at_next_level)
         IN FindMaxTreeHeightLoop(num_elem, fan_out, next_pair.second,
                                  depth + 1, next_pair)

findMaxTreeHeight(num_elem, fan_out) ==
    IF num_elem <= 0
    THEN [first |-> 0, second |-> IndexPair(0, 0)]
    ELSE FindMaxTreeHeightLoop(num_elem, fan_out, 1, 0, IndexPair(0, 0))

(***************************************************************************)
(* Constructor: sentinel selection.                                        *)
(***************************************************************************)
InvalidValFor(agg_type) ==
    IF agg_type = "MIN" THEN INPUT_MAX
    ELSE IF agg_type = "MAX" THEN INPUT_MIN
    ELSE 0

(***************************************************************************)
(* computeChildIndexes / the child arithmetic of prepareChildValues*.      *)
(***************************************************************************)
computeChildIndexes(parent_idx, parent_tree_depth) ==
    IF parent_tree_depth = 0
    THEN [i \in 0..(fan_out_ - 1) |-> i + 1]
    ELSE LET cur_depth_start_offset == parent_idx * fan_out_ + 1
         IN [i \in 0..(fan_out_ - 1) |-> cur_depth_start_offset + i]

(***************************************************************************)
(* Combination rules.  vals is a sequence of AGG_TYPE values.              *)
(***************************************************************************)
RECURSIVE FoldMin(_, _)
FoldMin(acc, vals) ==
    IF vals = <<>> THEN acc ELSE FoldMin(Min2(acc, Head(vals)), Tail(vals))

RECURSIVE FoldMax(_, _)
FoldMax(acc, vals) ==
    IF vals = <<>> THEN acc ELSE FoldMax(Max2(acc, Head(vals)), Tail(vals))

RECURSIVE FoldSum(_, _)
FoldSum(acc, vals) ==
    IF vals = <<>> THEN acc ELSE FoldSum(acc + Head(vals), Tail(vals))

Participates(val) == val # null_val_ /\ val # invalid_val_

aggregateValue(vals) ==
    LET part == SelectSeq(vals, Participates)
        all_nulls == part = <<>>
    IN IF agg_type_ = "MIN"
       THEN IF all_nulls THEN null_val_ ELSE FoldMin(AGG_MAX, part)
       ELSE IF agg_type_ = "MAX"
       THEN IF all_nulls THEN null_val_ ELSE FoldMax(AGG_MIN, part)
       ELSE IF all_nulls THEN null_val_ ELSE FoldSum(0, part)

SumAndCountPair(s, c) == [sum |-> s, count |-> c]

PairParticipates(pair) == pair.sum # null_val_ /\ pair.sum # invalid_val_

RECURSIVE FoldPair(_, _)
FoldPair(res, pairs) ==
    IF pairs = <<>> THEN res
    ELSE FoldPair(SumAndCountPair(res.sum + Head(pairs).sum,
                                  res.count + Head(pairs).count),
                  Tail(pairs))

aggregateValueForDerivedAggregate(vals) ==
    LET part == SelectSeq(vals, PairParticipates)
    IN IF part = <<>>
       THEN SumAndCountPair(null_val_, 0)
       ELSE FoldPair(SumAndCountPair(0, 0), part)

(***************************************************************************)
(* Indirection: i-th sorted row -> physical offset -> column value.        *)
(***************************************************************************)
\* the lookup through original_input_col_idx_buf_ left out
RefinedInputColIdxOrderedOnly(input_col_idx) ==
    ordered_input_col_idx_buf_[input_col_idx]

RefinedInputColIdx(input_col_idx) ==
    original_input_col_idx_buf_[ordered_input_col_idx_buf_[input_col_idx]]

ResolvedColVal(input_col_idx) == input_col_buf_[RefinedInputColIdx(input_col_idx)]

IsLeafIdx(cur_node_idx) ==
    cur_node_idx >= leaf_range_.first /\ cur_node_idx <= leaf_range_.second

(***************************************************************************)
(* build: returns the node's value, the buffer entries written at and      *)
(* below the node (mem), and the sorted positions whose indices were       *)
(* resolved through the index arrays (idx_reads).                          *)
(***************************************************************************)
BuildLeafValue(cur_node_idx) ==
    LET input_col_idx == cur_node_idx - leaf_range_.first
    IN IF input_col_idx >= num_elems_ THEN invalid_val_
       ELSE IF ResolvedColVal(input_col_idx) # input_type_null_val_
       THEN IF agg_type_ = "COUNT" THEN 1 ELSE ResolvedColVal(input_col_idx)
       ELSE null_val_

BuildLeafIdxReads(cur_node_idx) ==
    LET input_col_idx == cur_node_idx - leaf_range_.first
    IN IF input_col_idx >= num_elems_ THEN {} ELSE {input_col_idx}

RECURSIVE MergeMem(_, _)
MergeMem(kids, i) ==
    IF i < 0 THEN <<>> ELSE kids[i].mem @@ MergeMem(kids, i - 1)

ChildVals(kids) == [i \in 1..fan_out_ |-> kids[i - 1].val]

\* aggregated_values_[cur_node_idx] = v; return v
StoreNode(cur_node_idx, v, kids_mem, idx_reads) ==
    [val |-> v, mem |-> (cur_node_idx :> v) @@ kids_mem, idx_reads |-> idx_reads]

StoreInnerNode(cur_node_idx, kids) ==
    StoreNode(cur_node_idx, aggregateValue(ChildVals(kids)),
              MergeMem(kids, fan_out_ - 1),
              UNION {kids[i].idx_reads : i \in 0..(fan_out_ - 1)})

RECURSIVE build(_, _)
prepareChildValuesforAggregation(parent_idx, cur_node_depth) ==
    [i \in 0..(fan_out_ - 1) |->
        build(computeChildIndexes(parent_idx, cur_node_depth)[i], cur_node_depth + 1)]

build(cur_node_idx, cur_node_depth) ==
    IF IsLeafIdx(cur_node_idx)
    THEN StoreNode(cur_node_idx, BuildLeafValue(cur_node_idx), <<>>,
                   BuildLeafIdxReads(cur_node_idx))
    ELSE StoreInnerNode(cur_node_idx,
                        prepareChildValuesforAggregation(cur_node_idx, cur_node_depth))

BuildDerivedLeafValue(cur_node_idx) ==
    LET input_col_idx == cur_node_idx - leaf_range_.first
    IN IF input_col_idx >= num_elems_ THEN SumAndCountPair(invalid_val_, 0)
       ELSE IF ResolvedColVal(input_col_idx) # input_type_null_val_
       THEN SumAndCountPair(ResolvedColVal(input_col_idx), 1)
       ELSE SumAndCountPair(null_val_, 0)

\* modified_input_col_idx is computed before input_col_idx is tested
BuildDerivedLeafIdxReads(cur_node_idx) == {cur_node_idx - leaf_range_.first}

StoreDerivedInnerNode(cur_node_idx, kids) ==
    StoreNode(cur_node_idx, aggregateValueForDerivedAggregate(ChildVals(kids)),
              MergeMem(kids, fan_out_ - 1),
              UNION {kids[i].idx_reads : i \in 0..(fan_out_ - 1)})

RECURSIVE buildForDerivedAggregate(_, _)
prepareChildValuesforDerivedAggregate(parent_idx, cur_node_depth) ==
    [i \in 0..(fan_out_ - 1) |->
        buildForDerivedAggregate(computeChildIndexes(parent_idx, cur_node_depth)[i],
                                 cur_node_depth + 1)]

buildForDerivedAggregate(cur_node_idx, cur_node_depth) ==
    IF IsLeafIdx(cur_node_idx)
    THEN StoreNode(cur_node_idx, BuildDerivedLeafValue(cur_node_idx), <<>>,
                   BuildDerivedLeafIdxReads(cur_node_idx))
    ELSE StoreDerivedInnerNode(cur_node_idx,
             prepareChildValuesforDerivedAggregate(cur_node_idx, cur_node_depth))

(***************************************************************************)
(* Reads of the node buffers.  A read outside the allocation, or through   *)
(* aggregated_values_ when only derived_aggregated_ was allocated (AVG),   *)
(* is undefined behaviour: it yields an arbitrary value, garbage.          *)
(***************************************************************************)
NodeRead(buf, idx) == [buf |-> buf, idx |-> idx]

ReadAggregatedValues(i, garbage) ==
    IF agg_type_ # "AVG" /\ i >= 0 /\ i < tree_size_
    THEN aggregated_values_[i]
    ELSE garbage

RECURSIVE ReadRun(_, _, _)
ReadRun(i, end_idx, garbage) ==
    IF i >= end_idx THEN <<>>
    ELSE <<ReadAggregatedValues(i, garbage)>> \o ReadRun(i + 1, end_idx, garbage)

aggregateValueViaColumnAccess(cur_col_idx, num_visits, garbage) ==
    LET end_idx == cur_col_idx + num_visits
    IN aggregateValue(ReadRun(cur_col_idx, end_idx, garbage))

aggregateValueForDerivedAggregateViaColumnAccess(cur_col_idx, num_visits, garbage) ==
    LET end_idx == cur_col_idx + num_visits
    IN aggregateValueForDerivedAggregate(ReadRun(cur_col_idx, end_idx, garbage))

ColumnAccessReads(cur_col_idx, num_visits) ==
    {NodeRead("aggregated_values_", i) : i \in cur_col_idx..(cur_col_idx + num_visits - 1)}

(***************************************************************************)
(* The covered sub-ranges search hands to the children of a node covering  *)
(* [search_range_start_idx, search_range_end_idx]: the loop of search and  *)
(* searchForDerivedAggregate, one iteration per unfolding.                 *)
(***************************************************************************)
RECURSIVE ChildSearchRangesLoop(_, _, _, _, _)
ChildSearchRangesLoop(i, child_search_start_idx, child_search_end_idx, pivot_idx, search_range_end_idx) ==
    IF i >= fan_out_ THEN <<>>
    ELSE LET next_start == child_search_end_idx + 1
             next_end == next_start + pivot_idx
         IN <<IndexPair(child_search_start_idx, child_search_end_idx)>> \o
            ChildSearchRangesLoop(i + 1, next_start,
                                  IF next_end > search_range_end_idx
                                  THEN search_range_end_idx ELSE next_end,
                                  pivot_idx, search_range_end_idx)

PivotIdx(search_range_start_idx, search_range_end_idx) ==
    search_range_start_idx +
        ((search_range_end_idx - search_range_start_idx) \div fan_out_)

\* element i+1 of the result is the range of child i
ChildSearchRanges(search_range_start_idx, search_range_end_idx) ==
    LET pivot_idx == PivotIdx(search_range_start_idx, search_range_end_idx)
    IN ChildSearchRangesLoop(0, search_range_start_idx, pivot_idx,
                             pivot_idx, search_range_end_idx)

SearchCall(idx, depth, s, e) == [node |-> idx, depth |-> depth, start |-> s, end |-> e]

NoOverlap(range, s, e) == e < range.first \/ range.second < s
FullyCovered(range, s, e) == range.first <= s /\ e <= range.second

\* what a search call hands back: its value, the calls made, the entries read
Searched(val, calls, reads) == [val |-> val, calls |-> calls, reads |-> reads]

SearchedBelow(me, val, kids) ==
    Searched(val,
             {me} \cup UNION {kids[i].calls : i \in 0..(fan_out_ - 1)},
             UNION {kids[i].reads : i \in 0..(fan_out_ - 1)})

(***************************************************************************)
(* search.                                                                 *)
(***************************************************************************)
RECURSIVE search(_, _, _, _, _, _)
SearchChildren(range, child_indexes, child_depth, child_ranges, garbage) ==
    [i \in 0..(fan_out_ - 1) |->
        search(range, child_indexes[i], child_depth,
               child_ranges[i + 1].first, child_ranges[i + 1].second, garbage)]

SearchDescend(me, kids) == SearchedBelow(me, aggregateValue(ChildVals(kids)), kids)

search(range, cur_node_idx, cur_node_depth, search_range_start_idx, search_range_end_idx, garbage) ==
    LET me == SearchCall(cur_node_idx, cur_node_depth,
                         search_range_start_idx, search_range_end_idx)
        num_visits == range.second - search_range_start_idx + 1
    IN IF num_elems_ <= 0
       THEN Searched(null_val_, {me}, {})
       ELSE IF NoOverlap(range, search_range_start_idx, search_range_end_idx)
       THEN Searched(invalid_val_, {me}, {})
       ELSE IF FullyCovered(range, search_range_start_idx, search_range_end_idx)
       THEN Searched(ReadAggregatedValues(cur_node_idx, garbage), {me},
                     {NodeRead("aggregated_values_", cur_node_idx)})
       ELSE IF cur_node_depth = leaf_depth_
       THEN Searched(aggregateValueViaColumnAccess(cur_node_idx, num_visits, garbage),
                     {me}, ColumnAccessReads(cur_node_idx, num_visits))
       ELSE SearchDescend(me,
                SearchChildren(range,
                               computeChildIndexes(cur_node_idx, cur_node_depth),
                               cur_node_depth + 1,
                               ChildSearchRanges(search_range_start_idx,
                                                 search_range_end_idx),
                               garbage))

RECURSIVE searchForDerivedAggregate(_, _, _, _, _, _)
SearchDerivedChildren(range, child_indexes, child_depth, child_ranges, garbage) ==
    [i \in 0..(fan_out_ - 1) |->
        searchForDerivedAggregate(range, child_indexes[i], child_depth,
                                  child_ranges[i + 1].first,
                                  child_ranges[i + 1].second, garbage)]

SearchDerivedDescend(me, kids) ==
    SearchedBelow(me, aggregateValueForDerivedAggregate(ChildVals(kids)), kids)

searchForDerivedAggregate(range, cur_node_idx, cur_node_depth, search_range_start_idx, search_range_end_idx, garbage) ==
    LET me == SearchCall(cur_node_idx, cur_node_depth,
                         search_range_start_idx, search_range_end_idx)
        num_visits == range.second - search_range_start_idx + 1
    IN IF NoOverlap(range, search_range_start_idx, search_range_end_idx)
       THEN Searched(SumAndCountPair(invalid_val_, 0), {me}, {})
       ELSE IF FullyCovered(range, search_range_start_idx, search_range_end_idx)
       THEN Searched(derived_aggregated_[cur_node_idx], {me},
                     {NodeRead("derived_aggregated_", cur_node_idx)})
       ELSE IF cur_node_depth = leaf_depth_
       THEN Searched(aggregateValueForDerivedAggregateViaColumnAccess(
                         cur_node_idx, num_visits, garbage),
                     {me}, ColumnAccessReads(cur_node_idx, num_visits))
       ELSE SearchDerivedDescend(me,
                SearchDerivedChildren(range,
                                      computeChildIndexes(cur_node_idx, cur_node_depth),
                                      cur_node_depth + 1,
                                      ChildSearchRanges(search_range_start_idx,
                                                        search_range_end_idx),
                                      garbage))

(***************************************************************************)
(* query: the three paths of SegmentTree::query.                           *)
(***************************************************************************)
\* C++ integer division truncates toward zero
CDiv(a, b) ==
    IF (a >= 0) = (b > 0) THEN (IF a >= 0 THEN a \div b ELSE (-a) \div (-b))
    ELSE -((IF a >= 0 THEN a ELSE -a) \div (IF b > 0 THEN b ELSE -b))

\* the upper bound tested with >= instead of >
RangeRejectedOffByOne(range) ==
    range.first > range.second \/ range.first < 0 \/ range.second >= leaf_size_

RangeRejected(range) ==
    range.first > range.second \/ range.first < 0 \/ range.second > leaf_size_

DerivedResult(sum_and_count_pair) ==
    IF sum_and_count_pair.sum = null_val_ THEN null_val_
    ELSE IF sum_and_count_pair.count = 0 THEN 0
    ELSE IF input_col_ti_.is_decimal
    THEN CDiv(sum_and_count_pair.sum,
              Pow(10, input_col_ti_.scale) * sum_and_count_pair.count)
    ELSE CDiv(sum_and_count_pair.sum, sum_and_count_pair.count)

SearchResult(res) ==
    IF res = null_val_
    THEN IF agg_type_ \in {"MIN", "MAX"} THEN input_type_null_val_ ELSE null_val_
    ELSE res

\* values a read of memory the tree does not own may yield
GarbageVals == {null_val_, invalid_val_} \cup 0..(MaxVal + 1)
GarbagePairs == {SumAndCountPair(s, c) : s \in GarbageVals, c \in 0..1}

\* a read whose outcome the allocation does not determine
WildRead(read) ==
    /\ read.buf = "aggregated_values_"
    /\ (agg_type_ = "AVG" \/ read.idx < 0 \/ read.idx >= tree_size_)

\* the garbage only matters to a query that makes such a read
GarbageChoices(reads, all, any) ==
    IF \E rd \in reads : WildRead(rd) THEN all ELSE {any}

QueryObserved(op, range, result, searched) ==
    /\ last_op' = op
    /\ query_range' = range
    /\ query_result' = result
    /\ search_calls' = searched.calls
    /\ node_reads' = searched.reads
    /\ UNCHANGED treeVars

QueryRejected(range) ==
    /\ RangeRejected(range)
    /\ QueryObserved("rejected", range, null_val_, Searched(null_val_, {}, {}))

QueryDerived(range) ==
    /\ ~RangeRejected(range)
    /\ agg_type_ = "AVG"
    /\ \E probe \in {searchForDerivedAggregate(range, 0, 0, 0, leaf_size_, SumAndCountPair(0, 0))} :
         \E garbage \in GarbageChoices(probe.reads, GarbagePairs, SumAndCountPair(0, 0)) :
           \E r \in {IF garbage = SumAndCountPair(0, 0) THEN probe
                     ELSE searchForDerivedAggregate(range, 0, 0, 0, leaf_size_, garbage)} :
              QueryObserved("derived", range, DerivedResult(r.val), r)

QuerySearch(range) ==
    /\ ~RangeRejected(range)
    /\ agg_type_ # "AVG"
    /\ \E probe \in {search(range, 0, 0, 0, leaf_size_, 0)} :
         \E garbage \in GarbageChoices(probe.reads, GarbageVals, 0) :
           \E r \in {IF garbage = 0 THEN probe
                     ELSE search(range, 0, 0, 0, leaf_size_, garbage)} :
              QueryObserved("search", range, SearchResult(r.val), r)

(***************************************************************************)
(* The caller takes the result; the observation of the query is dropped.   *)
(***************************************************************************)
Return ==
    /\ last_op # "none"
    /\ last_op' = "none"
    /\ query_range' = IndexPair(0, 0)
    /\ query_result' = 0
    /\ search_calls' = {}
    /\ node_reads' = {}
    /\ UNCHANGED treeVars

(***************************************************************************)
(* Inputs.                                                                 *)
(***************************************************************************)
ColVals == {InlineNullValueInput} \cup 0..MaxVal

\* ranges offered to query: every accepted range, and rejected ranges with
\* lo < 0, with hi > leaf_size_ and with lo > hi
AcceptedRanges ==
    {r \in [first : 0..leaf_size_, second : 0..leaf_size_] : r.first <= r.second}

RejectedRanges ==
    {IndexPair(-1, -1), IndexPair(-1, 0), IndexPair(-1, leaf_size_),
     IndexPair(0, leaf_size_ + 1), IndexPair(leaf_size_, leaf_size_ + 1),
     IndexPair(leaf_size_ + 1, leaf_size_ + 1),
     IndexPair(1, 0), IndexPair(leaf_size_, leaf_size_ - 1), IndexPair(leaf_size_, 0)}

QueryRanges == AcceptedRanges \cup RejectedRanges

\* a caller either issues a new range or repeats the range it just issued
QueryChoices == IF last_op = "none" THEN QueryRanges ELSE {query_range}

Identity(n) == [i \in 0..(n - 1) |-> i]
Reversed(n) == [i \in 0..(n - 1) |-> n - 1 - i]
Rotated(n) == [i \in 0..(n - 1) |-> (i + 1) % n]

\* (ordered, original) index arrays offered to the constructor
IndexArrays(n) == {<<Identity(n), Identity(n)>>, <<Reversed(n), Rotated(n)>>}

TypeInfo(is_decimal, scale) == [is_decimal |-> is_decimal, scale |-> scale]

\* input_col_ti_ is only consulted by the AVG path of query
TypeInfos(agg_type) ==
    IF agg_type = "AVG" THEN {TypeInfo(FALSE, 0), TypeInfo(TRUE, 1)}
    ELSE {TypeInfo(FALSE, 0)}

\* the sorted column 1, null, 3, 4, null, 6, 7, ... cut to n elements
ScenarioCol(n) ==
    [i \in 0..(n - 1) |-> IF i + 1 \in {2, 5} THEN InlineNullValueInput ELSE i + 1]

Unallocated == <<>>

(***************************************************************************)
(* The constructor, run on the given inputs.                               *)
(***************************************************************************)
Construct(input_col_buf, input_col_ti, original_idx, ordered_idx, num_elems, agg_type, fan_out) ==
    /\ num_elems > 0                         \* CHECK_GT(num_elems_, 0)
    /\ input_col_buf_ = input_col_buf
    /\ input_col_ti_ = input_col_ti
    /\ original_input_col_idx_buf_ = original_idx
    /\ ordered_input_col_idx_buf_ = ordered_idx
    /\ num_elems_ = num_elems
    /\ fan_out_ = fan_out
    /\ agg_type_ = agg_type
    /\ LET max_tree_height_and_leaf_range == findMaxTreeHeight(num_elems, fan_out)
       IN /\ leaf_depth_ = max_tree_height_and_leaf_range.first
          /\ leaf_range_ = max_tree_height_and_leaf_range.second
    /\ tree_size_ = leaf_range_.second
    /\ leaf_size_ = leaf_range_.second - leaf_range_.first
    /\ invalid_val_ = InvalidValFor(agg_type)
    /\ null_val_ = InlineNullValueAgg
    /\ input_type_null_val_ = InlineNullValueInput
    /\ IF agg_type = "AVG"
       THEN LET b == buildForDerivedAggregate(0, 0)
            IN /\ derived_aggregated_ = b.mem
               /\ aggregated_values_ = Unallocated
               /\ index_reads = b.idx_reads
       ELSE LET b == build(0, 0)
            IN /\ aggregated_values_ = b.mem
               /\ derived_aggregated_ = Unallocated
               /\ index_reads = b.idx_reads
    /\ last_op = "none"
    /\ query_range = IndexPair(0, 0)
    /\ query_result = 0
    /\ search_calls = {}
    /\ node_reads = {}

\* every column over ColVals, small trees
Init ==
    \E agg_type \in AggKinds, fan_out \in 2..MaxFanOut, num_elems \in 1..MaxElems :
      \E input_col_buf \in [0..(num_elems - 1) -> ColVals],
         idx \in IndexArrays(num_elems),
         input_col_ti \in TypeInfos(agg_type) :
           Construct(input_col_buf, input_col_ti, idx[2], idx[1],
                     num_elems, agg_type, fan_out)

\* one column per size, larger and wider trees
InitWide ==
    \E agg_type \in AggKinds, fan_out \in 2..MaxWideFanOut, num_elems \in 1..MaxWideElems :
         Construct(ScenarioCol(num_elems), TypeInfo(FALSE, 0),
                   Identity(num_elems), Identity(num_elems),
                   num_elems, agg_type, fan_out)

Next ==
    \/ \E range \in QueryChoices : QueryRejected(range)
    \/ \E range \in QueryChoices : QueryDerived(range)
    \/ \E range \in QueryChoices : QuerySearch(range)
    \/ Return

Spec == Init /\ [][Next]_vars

SpecWide == InitWide /\ [][Next]_vars

(***************************************************************************)
(* The subtree of a node under the child arithmetic of computeChildIndexes *)
(* (children of p are p * fan_out_ + 1 .. p * fan_out_ + fan_out_).        *)
(***************************************************************************)
RECURSIVE SubtreeLeaves(_)
SubtreeLeaves(node_idx) ==
    IF node_idx >= leaf_range_.first THEN {node_idx}
    ELSE UNION {SubtreeLeaves(node_idx * fan_out_ + 1 + i) : i \in 0..(fan_out_ - 1)}

\* the leaf slots (sorted positions) below a node
SubtreeSlots(node_idx) == {n - leaf_range_.first : n \in SubtreeLeaves(node_idx)}

(***************************************************************************)
(* Properties.                                                             *)
(***************************************************************************)

\* C1: for every aggregate kind and fan-out, a query over an accepted range
\* [lo,hi] returns what a linear scan of the resolved leaf values of slots
\* lo..hi (padding slots left out) gives when the combination rule is applied
\* once and the top-level null post-processing follows.
C1_QueryEqualsLinearScan ==
    last_op \in {"search", "derived"} =>
        LET lo == query_range.first
            hi == Min2(query_range.second, num_elems_ - 1)
            len == IF hi >= lo THEN hi - lo + 1 ELSE 0
            elem(slot) ==
                input_col_buf_[original_input_col_idx_buf_[
                                   ordered_input_col_idx_buf_[slot]]]
            leaf(slot) ==
                IF elem(slot) = input_type_null_val_ THEN null_val_
                ELSE IF agg_type_ = "COUNT" THEN 1 ELSE elem(slot)
            pair(slot) ==
                IF elem(slot) = input_type_null_val_
                THEN SumAndCountPair(null_val_, 0)
                ELSE SumAndCountPair(elem(slot), 1)
        IN IF agg_type_ = "AVG"
           THEN query_result = DerivedResult(aggregateValueForDerivedAggregate(
                                   [k \in 1..len |-> pair(lo + k - 1)]))
           ELSE query_result = SearchResult(aggregateValue(
                                   [k \in 1..len |-> leaf(lo + k - 1)]))

\* C2: on the tree over 1, null, 3, 4, null, 6, 7 with fan-out 2 and identity
\* indirection, SUM gives query([0,6]) = 21, query([1,1]) = null sentinel and
\* query([0,1]) = 1, and COUNT gives query([0,6]) = 5.
C2_ConcreteScenario ==
    (/\ last_op = "search"
     /\ num_elems_ = 7
     /\ fan_out_ = 2
     /\ input_col_buf_ = ScenarioCol(7)
     /\ ordered_input_col_idx_buf_ = Identity(7)
     /\ original_input_col_idx_buf_ = Identity(7))
    => /\ (agg_type_ = "SUM" /\ query_range = IndexPair(0, 6)) => query_result = 21
       /\ (agg_type_ = "SUM" /\ query_range = IndexPair(1, 1)) => query_result = null_val_
       /\ (agg_type_ = "SUM" /\ query_range = IndexPair(0, 1)) => query_result = 1
       /\ (agg_type_ = "COUNT" /\ query_range = IndexPair(0, 6)) => query_result = 5

\* C3: a single-element query [i,i] with i < elementCount returns element i's
\* resolved value after null mapping (the value for MIN/MAX/SUM/AVG, 1 for
\* COUNT, the null value when the element is null) and nothing else.
C3_SingleElementQuery ==
    (/\ last_op \in {"search", "derived"}
     /\ query_range.first = query_range.second
     /\ query_range.first < num_elems_)
    => LET elem == input_col_buf_[original_input_col_idx_buf_[
                       ordered_input_col_idx_buf_[query_range.first]]]
       IN IF elem = input_type_null_val_
          THEN query_result = IF agg_type_ \in {"MIN", "MAX"}
                              THEN input_type_null_val_ ELSE null_val_
          ELSE IF agg_type_ = "COUNT" THEN query_result = 1
          ELSE IF agg_type_ = "AVG"
          THEN query_result = DerivedResult(SumAndCountPair(elem, 1))
          ELSE query_result = elem

\* C4: when every element of the partition is null, every query over an
\* accepted range returns null for MIN, MAX, SUM and AVG and 0 for COUNT.
C4_AllNullPartition ==
    (/\ last_op \in {"search", "derived"}
     /\ \A i \in 0..(num_elems_ - 1) : input_col_buf_[i] = input_type_null_val_)
    => IF agg_type_ = "COUNT" THEN query_result = 0
       ELSE IF agg_type_ \in {"MIN", "MAX"} THEN query_result = input_type_null_val_
       ELSE query_result = null_val_

\* C5: a query whose range has lo > hi, lo < 0 or hi > leafSize returns the
\* accumulator's null sentinel without searching and without reading the node
\* buffer; a range with 0 <= lo <= hi = leafSize is not rejected.
C5_RejectedRange ==
    last_op # "none" =>
        LET lo == query_range.first
            hi == query_range.second
        IN IF lo > hi \/ lo < 0 \/ hi > leaf_size_
           THEN /\ last_op = "rejected"
                /\ query_result = null_val_
                /\ search_calls = {}
                /\ node_reads = {}
           ELSE /\ last_op # "rejected"
                /\ \E c \in search_calls : c.node = 0

C5_Witness ==
    /\ last_op = "rejected"
    /\ agg_type_ = "MIN"
    /\ query_range = IndexPair(0, leaf_size_ + 1)

\* C6: the query over the whole partition, [0, elementCount-1], returns the
\* value stored at the root node after the top-level post-processing.
C6_FullRangeIsRoot ==
    (/\ last_op \in {"search", "derived"}
     /\ query_range = IndexPair(0, num_elems_ - 1))
    => IF agg_type_ = "AVG"
       THEN query_result = DerivedResult(derived_aggregated_[0])
       ELSE query_result = SearchResult(aggregated_values_[0])

\* C7: a query changes nothing of the tree (node buffer, leaf range, leaf
\* depth, leaf size, fan-out, sentinels), and a query repeated with the same
\* range returns the same result.
C7_QueriesReadOnlyAndRepeatable ==
    [][/\ UNCHANGED treeVars
       /\ (last_op # "none" /\ last_op' # "none" /\ query_range' = query_range)
             => query_result' = query_result]_vars

\* C8: the geometry has leafSize = leafEnd - leafStart >= elementCount, so
\* every element position i has its own leaf node leafStart + i inside the
\* node buffer.
C8_LeafLevelHoldsAllElements ==
    /\ leaf_size_ = leaf_range_.second - leaf_range_.first
    /\ leaf_size_ >= num_elems_
    /\ \A i \in 0..(num_elems_ - 1) : leaf_range_.first + i < tree_size_

\* C9: after construction every leaf node n of the buffer, with slot = n -
\* leafStart, holds the invalid sentinel when slot >= elementCount (AVG:
\* (invalid, 0)), else the null sentinel when column[original[ordered[slot]]]
\* is null (AVG: (null, 0)), else 1 for COUNT, else that value (AVG: (value, 1)).
C9_LeafContents ==
    \A n \in leaf_range_.first..(tree_size_ - 1) :
        LET slot == n - leaf_range_.first
            elem == input_col_buf_[original_input_col_idx_buf_[
                        ordered_input_col_idx_buf_[slot]]]
        IN IF agg_type_ = "AVG"
           THEN derived_aggregated_[n] =
                    IF slot >= num_elems_ THEN [sum |-> invalid_val_, count |-> 0]
                    ELSE IF elem = input_type_null_val_
                    THEN [sum |-> null_val_, count |-> 0]
                    ELSE [sum |-> elem, count |-> 1]
           ELSE aggregated_values_[n] =
                    IF slot >= num_elems_ THEN invalid_val_
                    ELSE IF elem = input_type_null_val_ THEN null_val_
                    ELSE IF agg_type_ = "COUNT" THEN 1
                    ELSE elem

C9_Witness ==
    /\ agg_type_ = "COUNT"
    /\ num_elems_ = 2
    /\ leaf_size_ > num_elems_
    /\ ordered_input_col_idx_buf_ # Identity(2)
    /\ input_col_buf_[0] = input_type_null_val_
    /\ input_col_buf_[1] = 1
    /\ aggregated_values_[leaf_range_.first] = null_val_
    /\ aggregated_values_[leaf_range_.first + 1] = 1
    /\ aggregated_values_[leaf_range_.first + 2] = invalid_val_

\* C10: when the search descends from a node covering [coveredStart,
\* coveredEnd], the ranges handed to its children are successive disjoint
\* slices covering exactly that range, the first ending at the pivot
\* coveredStart + (coveredEnd - coveredStart) / fanOut, all of equal width
\* except where a slice is cut short at coveredEnd.
C10_EqualChildSlices ==
    \A c \in search_calls :
        LET child(i) == CHOOSE k \in search_calls :
                            /\ k.depth = c.depth + 1
                            /\ k.node = IF c.depth = 0 THEN i + 1
                                        ELSE c.node * fan_out_ + 1 + i
            width(k) == k.end - k.start + 1
        IN (\E k \in search_calls : k.depth = c.depth + 1 /\ k.node = c.node * fan_out_ + 1)
           => /\ child(0).start = c.start
              /\ child(0).end = c.start + ((c.end - c.start) \div fan_out_)
              /\ \A i \in 1..(fan_out_ - 1) : child(i).start = child(i - 1).end + 1
              /\ child(fan_out_ - 1).end = c.end
              /\ \A i \in 0..(fan_out_ - 1) :
                    \/ width(child(i)) = width(child(0))
                    \/ child(i).end = c.end /\ width(child(i)) < width(child(0))

\* C11: in every search call of an accepted query the covered range
\* [coveredStart, coveredEnd] passed with a node is exactly the set of leaf
\* slots of that node's subtree, and a call that takes the full-containment
\* fast path returns the value of a node whose subtree leaves all lie inside
\* the query range [lo, hi].
C11_CoveredRangeIsSubtree ==
    \A c \in search_calls :
        /\ c.start..c.end = SubtreeSlots(c.node)
        /\ (~NoOverlap(query_range, c.start, c.end) /\ FullyCovered(query_range, c.start, c.end))
              => \A slot \in SubtreeSlots(c.node) :
                    query_range.first <= slot /\ slot <= query_range.second

\* C12: after construction with MIN, MAX, SUM or COUNT every internal node
\* holds the null sentinel exactly when no leaf of its subtree holds a
\* genuine non-null element, and otherwise the minimum / maximum / sum /
\* number of the genuine non-null elements of its subtree; an element whose
\* value is 0 counts as genuine.
C12_InnerNodeValues ==
    agg_type_ # "AVG" =>
        \A node \in 0..(leaf_range_.first - 1) :
            LET Genuine(slot) ==
                    /\ slot \in SubtreeSlots(node)
                    /\ slot < num_elems_
                    /\ ResolvedColVal(slot) # input_type_null_val_
                genuine == SelectSeq([k \in 1..leaf_size_ |-> k - 1], Genuine)
                vals == [k \in 1..Len(genuine) |-> ResolvedColVal(genuine[k])]
            IN IF vals = <<>>
               THEN aggregated_values_[node] = null_val_
               ELSE aggregated_values_[node] =
                        IF agg_type_ = "MIN" THEN FoldMin(AGG_MAX, vals)
                        ELSE IF agg_type_ = "MAX" THEN FoldMax(AGG_MIN, vals)
                        ELSE IF agg_type_ = "SUM" THEN FoldSum(0, vals)
                        ELSE Len(vals)

\* C13: after construction with AVG every node (padding leaves aside) holds
\* the pair (sum, count) with count the number of genuine non-null elements
\* among the leaves of its subtree and sum their sum, the null sentinel when
\* there are none; and an AVG query over an accepted range with at least one
\* non-null element returns the sum of the non-null elements of the range
\* divided by their number.
C13_DerivedPairs ==
    agg_type_ = "AVG" =>
        LET NonNull(slot) ==
                slot < num_elems_ /\ ResolvedColVal(slot) # input_type_null_val_
            AllSlots == [k \in 1..leaf_size_ |-> k - 1]
            InRange(slot) ==
                NonNull(slot) /\ query_range.first <= slot /\ slot <= query_range.second
            ranged == SelectSeq(AllSlots, InRange)
            ranged_vals == [k \in 1..Len(ranged) |-> ResolvedColVal(ranged[k])]
        IN /\ \A node \in 0..(tree_size_ - 1) :
                LET Genuine(slot) == slot \in SubtreeSlots(node) /\ NonNull(slot)
                    genuine == SelectSeq(AllSlots, Genuine)
                    vals == [k \in 1..Len(genuine) |-> ResolvedColVal(genuine[k])]
                IN (node < leaf_range_.first \/ node - leaf_range_.first < num_elems_)
                   => /\ derived_aggregated_[node].count = Len(vals)
                      /\ derived_aggregated_[node].sum =
                             IF vals = <<>> THEN null_val_ ELSE FoldSum(0, vals)
           /\ (last_op = "derived" /\ ~input_col_ti_.is_decimal /\ ranged # <<>>)
                 => query_result = CDiv(FoldSum(0, ranged_vals), Len(ranged_vals))

\* C14: during construction, for every aggregate kind, AVG included, the
\* index arrays and the column are only read for sorted positions slot <
\* elementCount; a padding leaf (slot >= elementCount) stores the invalid
\* sentinel and no index is resolved for it.
C14_IndexReadsInBounds ==
    /\ \A slot \in index_reads : 0 <= slot /\ slot < num_elems_
    /\ \A n \in leaf_range_.first..(tree_size_ - 1) :
          n - leaf_range_.first >= num_elems_
            => IF agg_type_ = "AVG"
               THEN derived_aggregated_[n].sum = invalid_val_
               ELSE aggregated_values_[n] = invalid_val_

\* C15: for every accepted query range every node-buffer index read during
\* the search lies in [0, tree size), and the leaf-level linear scan on
\* partial overlap (from the current node, hi - coveredStart + 1 entries)
\* reads only leaf slots inside [lo, hi].
C15_ReadsInsideBuffer ==
    last_op \in {"search", "derived"} =>
        /\ \A rd \in node_reads : 0 <= rd.idx /\ rd.idx < tree_size_
        /\ \A c \in search_calls :
              (/\ c.depth = leaf_depth_
               /\ ~NoOverlap(query_range, c.start, c.end)
               /\ ~FullyCovered(query_range, c.start, c.end))
              => \A i \in c.node..(c.node + query_range.second - c.start) :
                    /\ query_range.first <= i - leaf_range_.first
                    /\ i - leaf_range_.first <= query_range.second

====
